---------------------------- MODULE Spec2Model ----------------------------
(***************************************************************************)
(* Model of DataTransform/main.py: the malformed-JSON repair (repair_json) *)
(* and the task-transformer pipeline (TaskTransformer.consume/flush,       *)
(* TaskGroupTransformer.process, process_task_group,                       *)
(* run_task_transformers).                                                 *)
(*                                                                         *)
(* Two specifications share the module:                                    *)
(*   SpecRepair  repair_json run statement by statement on bounded texts   *)
(*   Spec        one run of run_task_transformers over bounded directories *)
(***************************************************************************)
EXTENDS Integers, Sequences, FiniteSets

VARIABLES
    \* ---- repair_json (lines 255-265) ----
    in_objs,      \* the object literals the input text was built from
    in_tail,      \* what follows the last object literal in the input text
    in_last_nl,   \* whether the last object literal keeps its final newline
    in_str,       \* the argument of repair_json: a sequence of characters
    repaired,     \* local `repaired`
    comma_pos,    \* local `comma_pos`
    rpc,          \* position inside repair_json
    rresult,      \* the value json.loads returned (the "contents" list)
    rerror,       \* the exception repair_json raised, or "none"
    \* ---- the pipeline (lines 21-283) ----
    pc,           \* position of the run
    g,            \* index into task_groups of the group being processed
    err,          \* the exception in flight or that ended the run, or "none"
    failedAt,     \* the statement of process that raised it
    listed,       \* entries of os.listdir(subdir_path) not yet iterated
    file,         \* loop variable `file`
    nrec,         \* records of jsoned['contents'] dispatched so far
    batch,        \* loop variable `batch`
    ti,           \* index into `transformers` of the consume / flush loop
    titles,       \* TaskTransformer.__titles, per task
    data,         \* TaskN.__data, per task: column -> list
    csv,          \* rows of <task>.csv as written by flush, or NotWritten
    groupResult,  \* how process_task_group ended, per group
    \* history, for stating the claims
    flushes,      \* calls of flush, per task
    calls,        \* calls of consume for the current file, per task
    nAccepted,    \* records accepted, per task
    rejects       \* <<why, title>> of the records turned down, per task

rvars == <<in_objs, in_tail, in_last_nl, in_str, repaired, comma_pos, rpc,
          rresult, rerror>>

pvars == <<pc, g, err, failedAt, listed, file, nrec, batch, ti, titles, data,
          csv, groupResult, flushes, calls, nAccepted, rejects>>

vars == <<rvars, pvars>>

----------------------------------------------------------------------------
(* Characters.  A text is a sequence of characters; a member of an object  *)
(* ("key": scalar) is one atomic character, since repair_json never looks  *)
(* inside one.                                                             *)

NL == "\n"
LBRACE == "{"
RBRACE == "}"
COMMA == ","
DOLLAR == "$"
LBRACKET == "["
RBRACKET == "]"
CONTENTS_KEY == "\"contents\":"

MemberAtoms == <<"a", "b", "c", "d">>

\* Bounds of the repair model.
MaxObjs == 2
MaxMembers == 2

RECURSIVE Concat(_)
Concat(ss) == IF ss = <<>> THEN <<>> ELSE Head(ss) \o Concat(Tail(ss))

RECURSIVE JoinWith(_, _)
JoinWith(ss, sep) ==
    IF ss = <<>> THEN <<>>
    ELSE IF Len(ss) = 1 THEN Head(ss)
    ELSE Head(ss) \o sep \o JoinWith(Tail(ss), sep)

(* An object literal as the generator may lay it out: k members, the first *)
(* on a new line or not, the closing brace on a line of its own or not.    *)
(* Every literal is a valid JSON object and is terminated by "}" NL.       *)
ObjForms ==
    [members : 0..MaxMembers, open_nl : BOOLEAN, close_nl : BOOLEAN]

ObjMembers(o) == { MemberAtoms[i] : i \in 1..o.members }

ObjText(o) ==
    <<LBRACE>>
    \o (IF o.open_nl THEN <<NL>> ELSE <<>>)
    \o JoinWith([i \in 1..o.members |-> <<MemberAtoms[i]>>],
                IF o.open_nl THEN <<COMMA, NL>> ELSE <<COMMA>>)
    \o (IF o.close_nl THEN <<NL>> ELSE <<>>)
    \o <<RBRACE, NL>>

Pretty(o) == o.open_nl /\ o.close_nl

(* What may follow the last object literal. *)
Tails ==
    { <<>>,                              \* nothing
      <<COMMA>>,                         \* a stray comma
      <<LBRACE, NL, "a">>,               \* an incomplete object, no comma
      <<LBRACE, NL, "a", COMMA, NL>>,    \* an incomplete object with a comma
      <<DOLLAR>> }                       \* garbage

DropLast(s) == SubSeq(s, 1, Len(s) - 1)

InputText(objs, last_nl, tail) ==
    LET all == Concat([i \in 1..Len(objs) |-> ObjText(objs[i])])
    IN (IF last_nl \/ objs = <<>> THEN all ELSE DropLast(all)) \o tail

ObjSeqs == UNION { [1..n -> ObjForms] : n \in 0..MaxObjs }

----------------------------------------------------------------------------
(* re.sub(r'\n\}[\n$]', r'\n},\n', in_str): leftmost, non-overlapping      *)
(* matches of NL "}" followed by NL or a literal "$" (inside a character   *)
(* class "$" is no anchor), each replaced by NL "}" "," NL.                *)

MatchesAt(s, i) ==
    /\ i + 2 <= Len(s)
    /\ s[i] = NL
    /\ s[i + 1] = RBRACE
    /\ s[i + 2] \in {NL, DOLLAR}

RECURSIVE ReSubFrom(_, _)
ReSubFrom(s, i) ==
    IF i > Len(s) THEN <<>>
    ELSE IF MatchesAt(s, i)
         THEN <<NL, RBRACE, COMMA, NL>> \o ReSubFrom(s, i + 3)
         ELSE <<s[i]>> \o ReSubFrom(s, i + 1)

ReSub(s) == ReSubFrom(s, 1)

(* Python indexing s[k]: 0-based, a negative k counts from the end, and    *)
(* anything outside -len..len-1 raises IndexError.                         *)
PyIndexValid(s, k) == -Len(s) <= k /\ k <= Len(s) - 1
PyAt(s, k) == IF k >= 0 THEN s[k + 1] ELSE s[Len(s) + k + 1]

(* Python slice s[:k]. *)
PySliceTo(s, k) ==
    LET stop == IF k >= 0 THEN (IF k > Len(s) THEN Len(s) ELSE k)
                ELSE (IF Len(s) + k < 0 THEN 0 ELSE Len(s) + k)
    IN SubSeq(s, 1, stop)

Wrap(body) == <<LBRACE, CONTENTS_KEY, LBRACKET>> \o body \o <<RBRACKET, RBRACE>>

----------------------------------------------------------------------------
(* json.loads on the wrapped text.  Whitespace (NL) may stand between any  *)
(* two tokens; "$" is no JSON token; an array is "[" values separated by   *)
(* single commas "]", an object "{" members separated by single commas "}".*)
(* A parsed object is the set of its members (a dict), the parsed contents *)
(* a sequence of them.                                                     *)

StripWs(s) == SelectSeq(s, LAMBDA c : c # NL)

Fail == [ok |-> FALSE, pos |-> 0, val |-> <<>>]

IsMember(c) == \E i \in 1..Len(MemberAtoms) : MemberAtoms[i] = c

\* members after the first: ("," member)* "}"
RECURSIVE ParseMoreMembers(_, _, _)
ParseMoreMembers(t, i, acc) ==
    IF i > Len(t) THEN Fail
    ELSE IF t[i] = RBRACE THEN [ok |-> TRUE, pos |-> i + 1, val |-> acc]
    ELSE IF t[i] = COMMA /\ i + 1 <= Len(t) /\ IsMember(t[i + 1])
         THEN ParseMoreMembers(t, i + 2, acc \cup {t[i + 1]})
    ELSE Fail

ParseObject(t, i) ==
    IF i > Len(t) \/ t[i] # LBRACE THEN Fail
    ELSE IF i + 1 <= Len(t) /\ t[i + 1] = RBRACE
         THEN [ok |-> TRUE, pos |-> i + 2, val |-> {}]
    ELSE IF i + 1 <= Len(t) /\ IsMember(t[i + 1])
         THEN ParseMoreMembers(t, i + 2, {t[i + 1]})
    ELSE Fail

\* values after the first: ("," value)* "]"
RECURSIVE ParseMoreValues(_, _, _)
ParseMoreValues(t, i, acc) ==
    IF i > Len(t) THEN Fail
    ELSE IF t[i] = RBRACKET THEN [ok |-> TRUE, pos |-> i + 1, val |-> acc]
    ELSE IF t[i] = COMMA
         THEN LET o == ParseObject(t, i + 1)
              IN IF o.ok THEN ParseMoreValues(t, o.pos, Append(acc, o.val))
                 ELSE Fail
    ELSE Fail

ParseArray(t, i) ==
    IF i > Len(t) \/ t[i] # LBRACKET THEN Fail
    ELSE IF i + 1 <= Len(t) /\ t[i + 1] = RBRACKET
         THEN [ok |-> TRUE, pos |-> i + 2, val |-> <<>>]
    ELSE LET o == ParseObject(t, i + 1)
         IN IF o.ok THEN ParseMoreValues(t, o.pos, <<o.val>>) ELSE Fail

\* json.loads(s)['contents'], or failure (json.JSONDecodeError)
JsonLoads(s) ==
    LET t == StripWs(s)
    IN IF \E k \in 1..Len(s) : s[k] = DOLLAR THEN Fail
       ELSE IF Len(t) < 2 \/ t[1] # LBRACE \/ t[2] # CONTENTS_KEY THEN Fail
       ELSE LET a == ParseArray(t, 3)
            IN IF a.ok /\ a.pos = Len(t) /\ t[a.pos] = RBRACE THEN a ELSE Fail

----------------------------------------------------------------------------
(* repair_json, statement by statement. *)

RepairInputs ==
    /\ in_objs \in ObjSeqs
    /\ in_tail \in Tails
    /\ in_last_nl \in (IF in_objs = <<>> THEN {TRUE} ELSE BOOLEAN)
    /\ in_str = InputText(in_objs, in_last_nl, in_tail)
    /\ repaired = <<>>
    /\ comma_pos = 0
    /\ rpc = "sub"
    /\ rresult = <<>>
    /\ rerror = "none"

\* lines 257-260: the substitution, then comma_pos = len(repaired) - 1
RepairSub ==
    /\ rpc = "sub"
    /\ repaired' = ReSub(in_str)
    /\ comma_pos' = Len(ReSub(in_str)) - 1
    /\ rpc' = "scan"
    /\ UNCHANGED <<in_objs, in_tail, in_last_nl, in_str, rresult, rerror>>
    /\ UNCHANGED pvars

\* lines 261-262: one evaluation of the loop condition, then the body
RepairScan ==
    /\ rpc = "scan"
    /\ IF ~PyIndexValid(repaired, comma_pos)
       THEN /\ rerror' = "IndexError"
            /\ rpc' = "raised"
            /\ UNCHANGED comma_pos
       ELSE IF PyAt(repaired, comma_pos) # COMMA
       THEN /\ comma_pos' = comma_pos - 1
            /\ UNCHANGED <<rpc, rerror>>
       ELSE /\ rpc' = "wrap"
            /\ UNCHANGED <<comma_pos, rerror>>
    /\ UNCHANGED <<in_objs, in_tail, in_last_nl, in_str, repaired, rresult>>
    /\ UNCHANGED pvars

\* line 264
RepairWrap ==
    /\ rpc = "wrap"
    /\ repaired' = Wrap(PySliceTo(repaired, comma_pos))
    /\ rpc' = "loads"
    /\ UNCHANGED <<in_objs, in_tail, in_last_nl, in_str, comma_pos, rresult, rerror>>
    /\ UNCHANGED pvars

\* line 265
RepairLoads ==
    /\ rpc = "loads"
    /\ LET r == JsonLoads(repaired)
       IN IF r.ok
          THEN /\ rresult' = r.val
               /\ rpc' = "returned"
               /\ UNCHANGED rerror
          ELSE /\ rerror' = "JSONDecodeError"
               /\ rpc' = "raised"
               /\ UNCHANGED rresult
    /\ UNCHANGED <<in_objs, in_tail, in_last_nl, in_str, repaired, comma_pos>>
    /\ UNCHANGED pvars

NextRepair == RepairSub \/ RepairScan \/ RepairWrap \/ RepairLoads

----------------------------------------------------------------------------
(* The pipeline: tasks, groups, records.                                   *)

Tasks == {"task_1", "task_2", "task_3", "task_4", "task_5"}

\* for_movies_only, the second argument of super().__init__
ForMoviesOnly(task) == task \in {"task_1", "task_2", "task_5"}

\* title_key, the third argument of super().__init__ (default 'title')
TitleKey(task) == IF task = "task_4" THEN "name" ELSE "title"

\* the keys of TaskN.__data
Columns(task) ==
    CASE task = "task_1" -> {"reviews", "rating", "film_title"}
      [] task = "task_2" -> {"popularity", "directors", "actors", "budget",
                             "runtime", "film_title"}
      [] task = "task_3" -> {"region", "popularity", "media_type", "title",
                             "genres"}
      [] task = "task_4" -> {"title", "seasons", "actors", "created_by",
                             "status", "popularity", "rating"}
      [] task = "task_5" -> {"media_type", "production_countries",
                             "production_companies", "popularity", "rating",
                             "title"}

\* the column that receives the record's title
TitleColumn(task) ==
    IF task \in {"task_1", "task_2"} THEN "film_title" ELSE "title"

\* self.__prune of Task2 and self.__actors_prune of Task4
Task2Prune == 100
ActorsPrune == 20

\* task_groups of run_task_transformers, in order
NGroups == 3
GroupName(i) == <<"movies", "regions", "tv_shows">>[i]

\* _get_transformers_list of the three groups
TransformersList(i) ==
    <<(<<"task_1", "task_2", "task_5">>), (<<"task_3">>), (<<"task_4">>)>>[i]

GroupTasks(i) ==
    { TransformersList(i)[k] : k \in 1..Len(TransformersList(i)) }

\* A directory entry: its name split at the last four characters.
FileNames ==
    { [stem |-> "US", ext |-> ".txt"],
      [stem |-> "RU", ext |-> ".txt"],
      [stem |-> "notes", ext |-> "json"] }

NoFile == [stem |-> "", ext |-> ""]

\* file.endswith(self._file_ending)
EndsWithTxt(f) == f.ext = ".txt"

\* _extract_meta of the three groups
ExtractMeta(i, f) == IF i = 2 THEN [region |-> f.stem] ELSE << >>

Titles == {"t1", "t2"}
\* number_of_seasons: JSON null (Python None) is the empty sequence, a number
\* n the one-element sequence <<n>>
None == << >>
SeasonCounts == {None, <<0>>, <<1>>}

Cast == << [name |-> "A0", order |-> 0],
           [name |-> "A50", order |-> 50],
           [name |-> "A150", order |-> 150] >>

Crew == << [name |-> "D", job |-> "Director"], [name |-> "E", job |-> "Editor"] >>

\* Records of tasks_1_2_5/ and task_3/: every key the extractors read.
TitledRecords ==
    { [media_type |-> m, title |-> t, popularity |-> 7, vote_average |-> 5,
       reviews |-> << [content |-> "good"], [content |-> "bad"] >>,
       cast |-> Cast, crew |-> Crew, budget |-> 1, runtime |-> 90,
       genre_ids |-> <<18, 35>>,
       production_countries |-> << [name |-> "US"] >>,
       production_companies |-> << [name |-> "Acme"] >>]
      : m \in {"MOVIE", "TV"}, t \in Titles }

\* Records of task_4/.
ShowRecords ==
    { [media_type |-> m, name |-> t, number_of_seasons |-> n,
       credits |-> [cast |-> Cast], created_by |-> << [name |-> "W"] >>,
       status |-> "Ended", popularity |-> 7, vote_average |-> 5]
      : m \in {"MOVIE", "TV"}, t \in Titles, n \in SeasonCounts }

DropKey(rec, key) == [k \in DOMAIN rec \ {key} |-> rec[k]]

\* A record may lack a key an extractor reads: here 'popularity'.
GroupRecords(i) ==
    LET full == IF i = 3 THEN ShowRecords ELSE TitledRecords
    IN full \cup { DropKey(r, "popularity") : r \in full }

NoRecord == << >>

\* Bound: records in one file.
MaxRecords == 2

----------------------------------------------------------------------------
(* TaskN._consume_impl: the appends in the order the code makes them.  An  *)
(* append whose expression reads an absent key raises KeyError and leaves  *)
(* the earlier appends in place.                                           *)

Field(rec, k) == IF k \in DOMAIN rec THEN rec[k] ELSE "KeyError"

Names(seq) == [i \in 1..Len(seq) |-> seq[i].name]

Step(col, needs, val) == [col |-> col, needs |-> needs, val |-> val]

Task1Steps(rec, meta) ==
    << Step("reviews", {"reviews"},
            [i \in 1..Len(rec.reviews) |-> rec.reviews[i].content]),
       Step("rating", {"vote_average"}, Field(rec, "vote_average")),
       Step("film_title", {"title"}, Field(rec, "title")) >>

\* a faulty Task2._consume_impl: the append to 'budget' is missing
Task2StepsNoBudget(rec, meta) ==
    << Step("film_title", {"title"}, Field(rec, "title")),
       Step("popularity", {"popularity"}, Field(rec, "popularity")),
       Step("actors", {"cast"},
            Names(SelectSeq(rec.cast, LAMBDA a : a.order < Task2Prune))),
       Step("directors", {"crew"},
            Names(SelectSeq(rec.crew, LAMBDA w : w.job = "Director"))),
       Step("runtime", {"runtime"}, Field(rec, "runtime")) >>

Task2Steps(rec, meta) ==
    << Step("film_title", {"title"}, Field(rec, "title")),
       Step("popularity", {"popularity"}, Field(rec, "popularity")),
       Step("actors", {"cast"},
            Names(SelectSeq(rec.cast, LAMBDA a : a.order < Task2Prune))),
       Step("directors", {"crew"},
            Names(SelectSeq(rec.crew, LAMBDA w : w.job = "Director"))),
       Step("budget", {"budget"}, Field(rec, "budget")),
       Step("runtime", {"runtime"}, Field(rec, "runtime")) >>

Task3Steps(rec, meta) ==
    << Step("title", {"title"}, Field(rec, "title")),
       Step("region", {}, meta.region),
       Step("popularity", {"popularity"}, Field(rec, "popularity")),
       Step("media_type", {"media_type"}, Field(rec, "media_type")),
       Step("genres", {"genre_ids"}, rec.genre_ids) >>

\* lines 140-147, the body of the season guard
Task4Steps(rec, meta) ==
    << Step("title", {"name"}, Field(rec, "name")),
       Step("seasons", {"number_of_seasons"}, rec.number_of_seasons[1]),
       Step("actors", {"credits"},
            Names(SelectSeq(rec.credits.cast,
                            LAMBDA a : a.order < ActorsPrune))),
       Step("created_by", {"created_by"}, Names(rec.created_by)),
       Step("status", {"status"}, Field(rec, "status")),
       Step("popularity", {"popularity"}, Field(rec, "popularity")),
       Step("rating", {"vote_average"}, Field(rec, "vote_average")) >>

Task5Steps(rec, meta) ==
    << Step("media_type", {"media_type"}, Field(rec, "media_type")),
       Step("production_countries", {"production_countries"},
            Names(rec.production_countries)),
       Step("production_companies", {"production_companies"},
            Names(rec.production_companies)),
       Step("popularity", {"popularity"}, Field(rec, "popularity")),
       Step("rating", {"vote_average"}, Field(rec, "vote_average")),
       Step("title", {"title"}, Field(rec, "title")) >>

\* line 139
SeasonGuard(rec) ==
    /\ rec.number_of_seasons # None
    /\ rec.number_of_seasons[1] >= 1

RECURSIVE RunSteps(_, _, _)
RunSteps(store, steps, rec) ==
    IF steps = <<>> THEN [store |-> store, raised |-> FALSE]
    ELSE LET s == Head(steps)
         IN IF s.needs \subseteq DOMAIN rec
            THEN RunSteps([store EXCEPT ![s.col] = Append(@, s.val)],
                          Tail(steps), rec)
            ELSE [store |-> store, raised |-> TRUE]

ConsumeImpl(task, store, rec, meta) ==
    CASE task = "task_1" -> RunSteps(store, Task1Steps(rec, meta), rec)
      [] task = "task_2" -> RunSteps(store, Task2Steps(rec, meta), rec)
      [] task = "task_3" -> RunSteps(store, Task3Steps(rec, meta), rec)
      [] task = "task_4" ->
            IF SeasonGuard(rec)
            THEN RunSteps(store, Task4Steps(rec, meta), rec)
            ELSE [store |-> store, raised |-> FALSE]
      [] task = "task_5" -> RunSteps(store, Task5Steps(rec, meta), rec)

\* a faulty condition: the test against self.__titles is missing
ConsumeGuardNoDedup(task, rec, seen) ==
    ~ForMoviesOnly(task) \/ rec.media_type = "MOVIE"

\* line 29, the condition of TaskTransformer.consume
ConsumeGuard(task, rec, seen) ==
    /\ ~ForMoviesOnly(task) \/ rec.media_type = "MOVIE"
    /\ rec[TitleKey(task)] \notin seen

\* a faulty consume: line 31 outside the if, so a record turned down by the
\* condition is registered too
ConsumeRegistersAlways(task, rec, meta, seen, store) ==
    IF ConsumeGuard(task, rec, seen)
    THEN LET r == ConsumeImpl(task, store, rec, meta)
         IN [seen |-> IF r.raised THEN seen
                      ELSE seen \cup {rec[TitleKey(task)]},
             store |-> r.store, raised |-> r.raised]
    ELSE [seen |-> seen \cup {rec[TitleKey(task)]}, store |-> store,
          raised |-> FALSE]

\* lines 28-31: the extractor's (__titles, __data) after consume, and whether
\* consume raised.  Line 31 runs whenever _consume_impl returns, also when
\* Task4's season guard made it append nothing.
Consume(task, rec, meta, seen, store) ==
    IF ConsumeGuard(task, rec, seen)
    THEN LET r == ConsumeImpl(task, store, rec, meta)
         IN [seen |-> IF r.raised THEN seen
                      ELSE seen \cup {rec[TitleKey(task)]},
             store |-> r.store, raised |-> r.raised]
    ELSE [seen |-> seen, store |-> store, raised |-> FALSE]

\* Python's exception hierarchy: what `except RuntimeError` (line 271) catches
IsRuntimeError(e) ==
    e \in {"RuntimeError", "RecursionError", "NotImplementedError"}

\* what repair_json can raise: the unguarded scan (line 261), json.loads
\* rejecting the text, json.loads exceeding the recursion limit on deeply
\* nested text
RepairErrors == {"IndexError", "JSONDecodeError", "RecursionError"}

----------------------------------------------------------------------------
(* History, in the claims' words.                                          *)

Range(seq) == { seq[i] : i \in 1..Len(seq) }

\* why consume turned a record down, or "accepted"
Verdict(task, rec, seen) ==
    IF ForMoviesOnly(task) /\ rec.media_type # "MOVIE" THEN "filtered"
    ELSE IF rec[TitleKey(task)] \in seen THEN "duplicate"
    ELSE IF task = "task_4" /\ ~(rec.number_of_seasons # None
                                 /\ rec.number_of_seasons[1] >= 1)
         THEN "guarded"
    ELSE "accepted"

EmptyStore(task) == [c \in Columns(task) |-> <<>>]


NoCsv == [written |-> FALSE, rows |-> 0]

Pending == [status |-> "pending", at |-> "none"]

\* the lists of one store all have the same length
SameLength(store) ==
    \A c1, c2 \in DOMAIN store : Len(store[c1]) = Len(store[c2])

----------------------------------------------------------------------------
(* One run of run_task_transformers.                                       *)

InitPipeline ==
    /\ pc = "driver"
    /\ g = 1
    /\ err = "none"
    /\ failedAt = "none"
    /\ listed = {}
    /\ file = NoFile
    /\ nrec = 0
    /\ batch = NoRecord
    /\ ti = 1
    /\ titles = [t \in Tasks |-> {}]
    /\ data = [t \in Tasks |-> EmptyStore(t)]
    /\ csv = [t \in Tasks |-> NoCsv]
    /\ groupResult = [i \in 1..NGroups |-> Pending]
    /\ flushes = [t \in Tasks |-> 0]
    /\ calls = [t \in Tasks |-> 0]
    /\ nAccepted = [t \in Tasks |-> 0]
    /\ rejects = [t \in Tasks |-> {}]

CurList == TransformersList(g)
CurTask == CurList[ti]

\* The transformers are locals of process: once it returns or raises, nothing
\* refers to them or to their titles and data any more.
DiscardLocals ==
    /\ titles' = [t \in Tasks |-> {}]
    /\ data' = [t \in Tasks |-> EmptyStore(t)]
    /\ rejects' = [t \in Tasks |-> {}]
    /\ calls' = [t \in Tasks |-> 0]
    /\ listed' = {}
    /\ file' = NoFile
    /\ batch' = NoRecord
    /\ nrec' = 0
    /\ ti' = 1

\* an exception leaves process (no handler inside it)
Raise(e, at) ==
    /\ err' = e
    /\ failedAt' = at
    /\ pc' = "except"

\* lines 282-283, 270, 197-200: the driver calls process on the next group,
\* which builds its transformers and lists the subdirectory
ProcessStart ==
    /\ pc = "driver"
    /\ g <= NGroups
    /\ \E entries \in SUBSET FileNames : listed' = entries
    /\ pc' = "files"
    /\ UNCHANGED <<g, err, failedAt, file, nrec, batch, ti, titles, data, csv,
                   groupResult, flushes, calls, nAccepted, rejects>>
    /\ UNCHANGED rvars

\* line 200: the subdirectory does not exist
ListdirRaises ==
    /\ pc = "driver"
    /\ g <= NGroups
    /\ Raise("FileNotFoundError", "listdir")
    /\ UNCHANGED <<g, listed, file, nrec, batch, ti, titles, data, csv,
                   groupResult, flushes, calls, nAccepted, rejects>>
    /\ UNCHANGED rvars

\* lines 200-202: an entry that does not end in '.txt'
SkipFile ==
    /\ pc = "files"
    /\ \E f \in listed :
          /\ ~EndsWithTxt(f)
          /\ listed' = listed \ {f}
          /\ file' = f
    /\ UNCHANGED <<pc, g, err, failedAt, nrec, batch, ti, titles, data, csv,
                   groupResult, flushes, calls, nAccepted, rejects>>
    /\ UNCHANGED rvars

\* lines 200-206: a '.txt' entry is read and repair_json returns
OpenFile ==
    /\ pc = "files"
    /\ \E f \in listed :
          /\ EndsWithTxt(f)
          /\ listed' = listed \ {f}
          /\ file' = f
    /\ nrec' = 0
    /\ calls' = [t \in Tasks |-> 0]
    /\ pc' = "records"
    /\ UNCHANGED <<g, err, failedAt, batch, ti, titles, data, csv, groupResult,
                   flushes, nAccepted, rejects>>
    /\ UNCHANGED rvars

\* lines 204-206: open fails, or repair_json raises
ReadRaises ==
    /\ pc = "files"
    /\ \E f \in listed :
          /\ EndsWithTxt(f)
          /\ listed' = listed \ {f}
          /\ file' = f
    /\ \E e \in RepairErrors \cup {"PermissionError"} : Raise(e, "read")
    /\ UNCHANGED <<g, nrec, batch, ti, titles, data, csv, groupResult, flushes,
                   calls, nAccepted, rejects>>
    /\ UNCHANGED rvars

\* a faulty process: the flush loop of line 211 indented into `for file`
AfterDispatchFlushes == "flush"

\* where control goes when the records of a file are exhausted: line 210,
\* then the next iteration of `for file`
AfterDispatch == "files"

\* line 207: the next record of jsoned['contents']
NextRecord ==
    /\ pc = "records"
    /\ nrec < MaxRecords
    /\ \E r \in GroupRecords(g) : batch' = r
    /\ nrec' = nrec + 1
    /\ ti' = 1
    /\ pc' = "consume"
    /\ UNCHANGED <<g, err, failedAt, listed, file, titles, data, csv,
                   groupResult, flushes, calls, nAccepted, rejects>>
    /\ UNCHANGED rvars

\* line 207: jsoned['contents'] is exhausted; line 210
EndOfFile ==
    /\ pc = "records"
    /\ pc' = AfterDispatch
    /\ batch' = NoRecord
    /\ ti' = 1
    /\ UNCHANGED <<g, err, failedAt, listed, file, nrec, titles, data, csv,
                   groupResult, flushes, calls, nAccepted, rejects>>
    /\ UNCHANGED rvars

\* lines 208-209: transformer.consume(batch, self._extract_meta(file))
ConsumeStep ==
    /\ pc = "consume"
    /\ LET task == CurTask
           r == Consume(task, batch, ExtractMeta(g, file), titles[task],
                        data[task])
           v == Verdict(task, batch, titles[task])
       IN /\ titles' = [titles EXCEPT ![task] = r.seen]
          /\ data' = [data EXCEPT ![task] = r.store]
          /\ calls' = [calls EXCEPT ![task] = @ + 1]
          /\ IF r.raised
             THEN /\ Raise("KeyError", "consume")
                  /\ UNCHANGED <<ti, nAccepted, rejects>>
             ELSE /\ nAccepted' = [nAccepted EXCEPT ![task] =
                                      IF v = "accepted" THEN @ + 1 ELSE @]
                  /\ rejects' = [rejects EXCEPT ![task] =
                                    IF v = "accepted" THEN @
                                    ELSE @ \cup {<<v, batch[TitleKey(task)]>>}]
                  /\ IF ti < Len(CurList)
                     THEN ti' = ti + 1 /\ pc' = "consume"
                     ELSE ti' = 1 /\ pc' = "records"
                  /\ UNCHANGED <<err, failedAt>>
    /\ UNCHANGED <<g, listed, file, nrec, batch, csv, groupResult, flushes>>
    /\ UNCHANGED rvars

\* line 200: os.listdir is exhausted; line 211
EndOfFiles ==
    /\ pc = "files"
    /\ listed = {}
    /\ pc' = "flush"
    /\ ti' = 1
    /\ UNCHANGED <<g, err, failedAt, listed, file, nrec, batch, titles, data,
                   csv, groupResult, flushes, calls, nAccepted, rejects>>
    /\ UNCHANGED rvars

\* lines 211-213: transformer.flush(transformed_data_dir) writes the frame
FlushStep ==
    /\ pc = "flush"
    /\ SameLength(data[CurTask])
    /\ csv' = [csv EXCEPT ![CurTask] =
                  [written |-> TRUE,
                   rows |-> Len(data[CurTask][TitleColumn(CurTask)])]]
    /\ flushes' = [flushes EXCEPT ![CurTask] = @ + 1]
    /\ IF ti < Len(CurList)
       THEN ti' = ti + 1 /\ pc' = "flush"
       ELSE ti' = 1 /\ pc' = "return"
    /\ UNCHANGED <<g, err, failedAt, listed, file, nrec, batch, titles, data,
                   groupResult, calls, nAccepted, rejects>>
    /\ UNCHANGED rvars

\* lines 62, 91, 117, 150, 178: pd.DataFrame rejects lists of unequal length,
\* or to_csv cannot write the file
FlushRaises ==
    /\ pc = "flush"
    /\ flushes' = [flushes EXCEPT ![CurTask] = @ + 1]
    /\ \E e \in {"PermissionError"}
                \cup (IF SameLength(data[CurTask]) THEN {} ELSE {"ValueError"}) :
          Raise(e, "flush")
    /\ UNCHANGED <<g, listed, file, nrec, batch, ti, titles, data, csv,
                   groupResult, calls, nAccepted, rejects>>
    /\ UNCHANGED rvars

\* line 214, and process_task_group returns to the loop of line 282
ProcessReturns ==
    /\ pc = "return"
    /\ groupResult' = [groupResult EXCEPT ![g] = [status |-> "ok", at |-> "none"]]
    /\ g' = g + 1
    /\ pc' = "driver"
    /\ DiscardLocals
    /\ UNCHANGED <<err, failedAt, csv, flushes, nAccepted>>
    /\ UNCHANGED rvars

\* lines 271-272: the handler of process_task_group
CatchRuntimeError ==
    /\ pc = "except"
    /\ IsRuntimeError(err)
    /\ groupResult' = [groupResult EXCEPT ![g] =
                          [status |-> "caught", at |-> failedAt]]
    /\ err' = "none"
    /\ failedAt' = "none"
    /\ g' = g + 1
    /\ pc' = "driver"
    /\ DiscardLocals
    /\ UNCHANGED <<csv, flushes, nAccepted>>
    /\ UNCHANGED rvars

\* lines 271, 283, 287, 296: no handler matches; the exception leaves
\* process_task_group, run_task_transformers, aloha and the script
Propagate ==
    /\ pc = "except"
    /\ ~IsRuntimeError(err)
    /\ groupResult' = [groupResult EXCEPT ![g] =
                          [status |-> "uncaught", at |-> failedAt]]
    /\ pc' = "crashed"
    /\ UNCHANGED <<g, err, failedAt, listed, file, nrec, batch, ti, titles,
                   data, csv, flushes, calls, nAccepted, rejects>>
    /\ UNCHANGED rvars

\* line 282: task_groups is exhausted; run_task_transformers returns
RunReturns ==
    /\ pc = "driver"
    /\ g = NGroups + 1
    /\ pc' = "done"
    /\ UNCHANGED <<g, err, failedAt, listed, file, nrec, batch, ti, titles,
                   data, csv, groupResult, flushes, calls, nAccepted, rejects>>
    /\ UNCHANGED rvars

Next ==
    \/ ProcessStart \/ ListdirRaises
    \/ SkipFile \/ OpenFile \/ ReadRaises \/ EndOfFiles
    \/ NextRecord \/ EndOfFile \/ ConsumeStep
    \/ FlushStep \/ FlushRaises
    \/ ProcessReturns \/ CatchRuntimeError \/ Propagate \/ RunReturns

----------------------------------------------------------------------------
(* The two specifications.  Each leaves the other part of the state idle.  *)

RepairIdle ==
    /\ in_objs = <<>>
    /\ in_tail = <<>>
    /\ in_last_nl = TRUE
    /\ in_str = <<>>
    /\ repaired = <<>>
    /\ comma_pos = 0
    /\ rpc = "idle"
    /\ rresult = <<>>
    /\ rerror = "none"

PipelineIdle ==
    /\ pc = "idle"
    /\ g = 1
    /\ err = "none"
    /\ failedAt = "none"
    /\ listed = {}
    /\ file = NoFile
    /\ nrec = 0
    /\ batch = NoRecord
    /\ ti = 1
    /\ titles = [t \in Tasks |-> {}]
    /\ data = [t \in Tasks |-> EmptyStore(t)]
    /\ csv = [t \in Tasks |-> NoCsv]
    /\ groupResult = [i \in 1..NGroups |-> Pending]
    /\ flushes = [t \in Tasks |-> 0]
    /\ calls = [t \in Tasks |-> 0]
    /\ nAccepted = [t \in Tasks |-> 0]
    /\ rejects = [t \in Tasks |-> {}]

Init == InitPipeline /\ RepairIdle

Spec == Init /\ [][Next]_vars

InitRepair == RepairInputs /\ PipelineIdle

SpecRepair == InitRepair /\ [][NextRepair]_vars

----------------------------------------------------------------------------
(* Claims about repair_json, checked under SpecRepair.                     *)

RepairEnded == rpc \in {"returned", "raised"}

\* the objects the input text was built from, as json.loads would give them
Expected == [i \in 1..Len(in_objs) |-> ObjMembers(in_objs[i])]

RepairedExactly == rpc = "returned" /\ rresult = Expected

HasComma(s) == \E k \in 1..Len(s) : s[k] = COMMA

(* C5: repairing N >= 1 valid JSON objects, each terminated by "}" and a   *)
(* newline, with no separators and nothing after them, returns exactly     *)
(* those N objects in order -- also when a closing brace is not preceded   *)
(* by a newline and when an object has no internal comma.                  *)
C5_RepairConcatenatedObjects ==
    (RepairEnded /\ Len(in_objs) >= 1 /\ in_last_nl /\ in_tail = <<>>)
        => RepairedExactly

(* C6: N >= 1 valid objects followed by a stray comma or by a partial      *)
(* object fragment are repaired to exactly those N objects, and repair     *)
(* does not fail.  Stated for objects in the generator's layout (every     *)
(* closing brace on a line of its own), where the boundary insertion       *)
(* itself works, so that only the trailing text decides it.                *)
C6_RepairTrailingGarbage ==
    (/\ RepairEnded
     /\ Len(in_objs) >= 1
     /\ \A i \in 1..Len(in_objs) : Pretty(in_objs[i])
     /\ in_last_nl
     /\ in_tail \in { <<COMMA>>, <<LBRACE, NL, "a">>,
                      <<LBRACE, NL, "a", COMMA, NL>> })
        => RepairedExactly

(* C9: when the text after boundary insertion holds no comma, the backward *)
(* scan stops at index 0: it reads no position before the start of the     *)
(* string and raises no index error.                                       *)
C9_ScanStopsAtStart ==
    (rpc \in {"scan", "raised"} /\ ~HasComma(ReSub(in_str)))
        => (comma_pos >= 0 /\ rerror # "IndexError")

----------------------------------------------------------------------------
(* Claims about the pipeline, checked under Spec.                          *)

TitleList(task) == data[task][TitleColumn(task)]

CurrentTasks == IF g <= NGroups THEN GroupTasks(g) ELSE {}

\* the step about to be taken is consume(batch, meta) on `task`
Consuming(task) == pc = "consume" /\ CurTask = task

\* batch has every key `task` reads
Complete(task) == task = "task_1" \/ "popularity" \in DOMAIN batch

RowAppended(task) ==
    /\ \A c \in Columns(task) : Len(data'[task][c]) = Len(data[task][c]) + 1
    /\ data'[task][TitleColumn(task)] =
          Append(TitleList(task), batch[TitleKey(task)])

ExtractorUnchanged(task) ==
    titles'[task] = titles[task] /\ data'[task] = data[task]

SeasonsInvalid(rec) ==
    rec.number_of_seasons = None \/ rec.number_of_seasons[1] < 1

(* C1: Task4 turns down a record whose number_of_seasons is null or < 1    *)
(* without appending a row and without adding its name to SeenTitles, so   *)
(* a later record with the same name and a season count >= 1 appends a row.*)
C1_SeasonRejectNotRegistered ==
    [][ /\ (Consuming("task_4") /\ SeasonsInvalid(batch))
            => ExtractorUnchanged("task_4")
        /\ (/\ Consuming("task_4")
            /\ ~SeasonsInvalid(batch)
            /\ batch.name \notin Range(TitleList("task_4"))
            /\ Complete("task_4"))
            => RowAppended("task_4") ]_vars

(* C2: an error raised inside one group's process (missing subdirectory,   *)
(* I/O error, unparseable file, key-lookup failure, index error of the     *)
(* repair scan) is caught by the driver, process is still called on every  *)
(* later group, and the run completes normally.                            *)
C2_GroupFailureIsolated ==
    /\ pc # "crashed"
    /\ \A i \in 1..NGroups : groupResult[i].status # "uncaught"
    /\ pc = "done" => \A i \in 1..NGroups : groupResult[i].status # "pending"

(* C8: a file-level failure (text that cannot be repaired into JSON, a     *)
(* record missing a required key) does not abort the group: the group      *)
(* still ends normally with every extractor flushed.                       *)
C8_FileFailureScopedToFile ==
    /\ failedAt \in {"read", "consume"} => pc \notin {"except", "crashed"}
    /\ \A i \in 1..NGroups :
          groupResult[i].at \in {"read", "consume"}
              => /\ groupResult[i].status = "ok"
                 /\ \A t \in GroupTasks(i) : flushes[t] = 1

Distinct(seq) ==
    \A i, j \in 1..Len(seq) : i # j => seq[i] # seq[j]

(* C3: deduplication is per extractor and keyed on the title string only:  *)
(* no title column ever holds a value twice; a record whose title the      *)
(* extractor has accepted leaves its ColumnStore and SeenTitles unchanged, *)
(* whatever its file and metadata; and the three extractors of the movies  *)
(* group, each with its own SeenTitles, accept the same titles.            *)
C3_DedupPerExtractorByTitle ==
    /\ [](\A t \in Tasks : Distinct(TitleList(t)))
    /\ []((g = 1 /\ pc \in {"records", "files", "flush", "return"})
            => (titles["task_1"] = titles["task_2"]
                /\ titles["task_2"] = titles["task_5"]
                /\ TitleList("task_1") = TitleList("task_2")
                /\ TitleList("task_2") = TitleList("task_5")))
    /\ [][ \A t \in Tasks :
             (Consuming(t) /\ batch[TitleKey(t)] \in Range(TitleList(t)))
                 => ExtractorUnchanged(t) ]_vars

\* Task3 turned down a title it already holds, met again under another region
C3_Witness ==
    /\ g = 2
    /\ pc = "records"
    /\ Len(TitleList("task_3")) = 1
    /\ <<"duplicate", TitleList("task_3")[1]>> \in rejects["task_3"]
    /\ data["task_3"]["region"][1] # file.stem

(* C4: Task1, Task2 and Task5 turn down a record whose media_type is not   *)
(* "MOVIE" leaving ColumnStore and SeenTitles unchanged, and accept a      *)
(* MOVIE record whose title they hold no row for (also after a non-movie   *)
(* of that title); Task3 and Task4 accept non-movie records.               *)
C4_MovieFilterDoesNotRegister ==
    [][ /\ \A t \in {"task_1", "task_2", "task_5"} :
              /\ (Consuming(t) /\ batch.media_type # "MOVIE")
                    => ExtractorUnchanged(t)
              /\ (/\ Consuming(t)
                  /\ batch.media_type = "MOVIE"
                  /\ batch.title \notin Range(TitleList(t))
                  /\ Complete(t))
                    => RowAppended(t)
        /\ (/\ Consuming("task_3")
            /\ batch.media_type # "MOVIE"
            /\ batch.title \notin Range(TitleList("task_3"))
            /\ Complete("task_3"))
              => RowAppended("task_3")
        /\ (/\ Consuming("task_4")
            /\ batch.media_type # "MOVIE"
            /\ batch.name \notin titles["task_4"]
            /\ ~SeasonsInvalid(batch)
            /\ Complete("task_4"))
              => RowAppended("task_4") ]_vars

\* Task1 has just accepted a MOVIE whose title it turned down before as a
\* non-movie (Task2, next in the list, has not seen the record yet)
C4_Witness ==
    /\ g = 1
    /\ pc = "consume"
    /\ ti = 2
    /\ batch.media_type = "MOVIE"
    /\ <<"filtered", batch.title>> \in rejects["task_1"]
    /\ batch.title \notin titles["task_2"]
    /\ TitleList("task_1")[Len(TitleList("task_1"))] = batch.title

(* C7: as long as every consume call has returned, all columns of every    *)
(* extractor have the same length, the number of records it accepted (not  *)
(* filtered as non-movie, not deduplicated, and for Task4 passing the      *)
(* season guard); flush writes that many rows.                             *)
C7_RowsEqualAccepted ==
    /\ failedAt # "consume"
          => \A t \in CurrentTasks : \A c \in Columns(t) :
                Len(data[t][c]) = nAccepted[t]
    /\ \A t \in Tasks : csv[t].written => csv[t].rows = nAccepted[t]

\* the shows group has flushed one row after turning down records by the
\* season guard and as duplicates; the movies group wrote two rows before
C7_Witness ==
    /\ g = 3
    /\ pc = "return"
    /\ csv["task_4"] = [written |-> TRUE, rows |-> 1]
    /\ \E a, b \in Titles :
          {<<"guarded", a>>, <<"duplicate", b>>} \subseteq rejects["task_4"]
    /\ csv["task_2"] = [written |-> TRUE, rows |-> 2]
    /\ csv["task_3"].written

(* C10: in process, consume is called for each record on every extractor   *)
(* of the group in list order; flush is called only after the last consume *)
(* of the last file, once per extractor, in list order; no consume follows *)
(* a flush; and a group that fails before the flush loop has flushed no    *)
(* extractor.                                                              *)
C10_ConsumeThenFlushOnce ==
    /\ \A t \in Tasks : flushes[t] <= 1
    /\ pc = "consume"
          => \A k \in 1..Len(CurList) :
                calls[CurList[k]] = IF k < ti THEN nrec ELSE nrec - 1
    /\ pc = "records" => \A t \in CurrentTasks : calls[t] = nrec
    /\ pc \in {"files", "records", "consume"}
          => \A t \in CurrentTasks : flushes[t] = 0
    /\ pc = "flush"
          => /\ listed = {}
             /\ \A k \in 1..Len(CurList) :
                   flushes[CurList[k]] = IF k < ti THEN 1 ELSE 0
    /\ pc = "return" => \A t \in CurrentTasks : flushes[t] = 1
    /\ \A i \in 1..NGroups :
          /\ groupResult[i].status = "ok"
                => \A t \in GroupTasks(i) : flushes[t] = 1 /\ csv[t].written
          /\ (groupResult[i].status \in {"caught", "uncaught"}
              /\ groupResult[i].at # "flush")
                => \A t \in GroupTasks(i) : flushes[t] = 0 /\ ~csv[t].written
    /\ (pc = "except" /\ failedAt # "flush")
          => \A t \in CurrentTasks : flushes[t] = 0

\* the movies group returns after two files, its three extractors flushed
\* once each with two rows
C10_Witness ==
    /\ g = 1
    /\ pc = "return"
    /\ \A t \in GroupTasks(1) : flushes[t] = 1 /\ csv[t].rows = 2
    /\ \A t \in GroupTasks(1) : rejects[t] # {}

============================================================================
